---- MODULE Spec2Model ----
(***************************************************************************)
(* cruzdb entry service: the intention loop and its queues, the IO loop,   *)
(* the primary after-image matcher and Stop(), modelled from               *)
(* src/db/entry_service.cc.                                                *)
(*                                                                         *)
(* Log positions are 0-based: position p is log[p + 1].                    *)
(***************************************************************************)
EXTENDS Integers, Sequences, FiniteSets, TLC

\* ------------------------------------------------------------------ bounds
\* the log's length in the intention fan-out (SpecIQ), in after-image
\* matching (SpecAM) and in shutdown (SpecStop)
MaxLogIQ == 3
MaxLogAM == 4
MaxLogStop == 2
\* queues registered in SpecIQ and in SpecStop, threads calling match()
MaxQueues == 2
MaxQueuesStop == 1
NumMatchers == 2
\* the log's length and the threads calling match() in delivery order (SpecMatch)
MaxLogMatch == 5
NumCallers == 1
\* the log's length with concurrent ReadIntentions (SpecCache), its callers
MaxLogCache == 3
NumReaders == 1
\* the log's length with transactions committing (SpecTx)
MaxLogTx == 2

\* EntryCache::Insert evicts once the cache holds more than this many entries
CacheCap == 10

\* boost::none for optional positions
None == -1

VARIABLES
  log,                \* the shared log: a sequence of entries
  inflight,           \* AppendIntention calls between log_->Append and cache_.Insert
  stop_,              \* EntryService::stop_
  intention_queues_,  \* EntryService::intention_queues_: sequence of queues
  cache_,             \* EntryService::cache_ (EntryCache::intentions_): positions held
  entry_cache_,       \* EntryService::entry_cache_: position -> CacheEntry
  q_start,            \* history: the position each queue was registered at
  q_recv,             \* history: the positions pushed to each queue, in order
  q_rewind,           \* history: queue was registered below the minimum Position()
  q_reg,              \* history: where Stop() was when the queue was registered
  ir_pc, pos, last_min_pos,   \* IntentionReader: program counter and locals
  io_pc, next, tail,          \* IOEntry: program counter and locals
  afterimages_,       \* PrimaryAfterImageMatcher::afterimages_ (slot index)
  matched_,           \* PrimaryAfterImageMatcher::matched_ (deque of pairs)
  matched_watermark_, \* PrimaryAfterImageMatcher::matched_watermark_
  shutdown_,          \* PrimaryAfterImageMatcher::shutdown_
  m_pc,               \* each match() caller's position
  returned,           \* history: the pairs match() has returned, in order
  watched,            \* history: intention positions given to watch()
  pushes,             \* history: the (intention, pos) arguments of push(), in order
  enqueued,           \* history: every pair ever placed on matched_
  aborted,            \* an assert() failed and the process aborted
  stop_pc, stop_i, stop_end,  \* Stop(): program counter and loop iterators
  w_pc,               \* each queue consumer's position in Wait()
  q_taken,            \* history: the positions Wait() has returned from each queue
  ri_pc, ri_missing,  \* each ReadIntentions caller: program counter, missing positions
  handed,             \* history: the shared references ReadIntentions has returned
  committed_,         \* TransactionImpl::committed_
  intention_,         \* TransactionImpl::intention_: the operations recorded
  tree_,              \* TransactionImpl::tree_: the tentative tree's mutations
  tx_ret,             \* what Commit() returned ("none" before it is called)
  tx_log0,            \* history: the log's length when the transaction began
  lk_pc,              \* locking: each thread's position in its code (0: returned)
  lk_owner            \* locking: the thread that holds each mutex, or "free"

logVars == <<log, inflight>>
svcVars == <<stop_, intention_queues_, cache_, entry_cache_>>
histVars == <<q_start, q_recv, q_rewind, q_reg>>
irVars == <<ir_pc, pos, last_min_pos>>
ioVars == <<io_pc, next, tail>>
amVars == <<afterimages_, matched_, matched_watermark_, shutdown_, m_pc, returned,
            watched, pushes, enqueued>>
stopVars == <<stop_pc, stop_i, stop_end>>
waitVars == <<w_pc, q_taken>>
riVars == <<ri_pc, ri_missing, handed>>
\* the state of the service's callers that the service itself never touches
txVars == <<committed_, intention_, tree_, tx_ret, tx_log0>>
lockVars == <<lk_pc, lk_owner>>
callerVars == <<riVars, txVars, lockVars>>
vars == <<log, inflight, stop_, intention_queues_, cache_, entry_cache_,
          q_start, q_recv, q_rewind, q_reg, ir_pc, pos, last_min_pos, io_pc, next, tail,
          afterimages_, matched_, matched_watermark_, shutdown_, m_pc, returned,
          watched, pushes, enqueued, aborted, stop_pc, stop_i, stop_end,
          w_pc, q_taken, ri_pc, ri_missing, handed, committed_, intention_, tree_,
          tx_ret, tx_log0, lk_pc, lk_owner>>

\* ------------------------------------------------------------------ helpers
SetMin(S) == CHOOSE x \in S : \A y \in S : x <= y

Last(s) == s[Len(s)]

\* ------------------------------------------------------------------ the log
NotWritten == [type |-> "NW", ref |-> 0]
IntentionEntry == [type |-> "I", ref |-> 0]
AfterImageEntry(ref) == [type |-> "AI", ref |-> ref]

\* zlog::Log::CheckTail: the highest assigned position + 1
CheckTail == Len(log)

\* zlog::Log::Read: the entry at p, or -ENOENT when p holds nothing yet
Read(p) == IF p < Len(log) THEN log[p + 1] ELSE NotWritten

IsIntention(p) == Read(p).type = "I"

\* the intention positions an after-image written at p may reference
Refs(p) == {r \in 0..(p - 1) : IsIntention(r)}

\* the process is running: no assert() has aborted it
Running == ~aborted

\* A remote or in-flight append was assigned the tail position and has not
\* written it yet: readers see -ENOENT at a position below the tail.
\* (max bounds the log's length, here and in the other appends.)
LogReserve(max) ==
  /\ Running
  /\ Len(log) < max
  /\ log' = Append(log, NotWritten)
  /\ UNCHANGED <<callerVars, inflight, svcVars, histVars, irVars, ioVars, amVars, aborted,
                 stopVars, waitVars>>

\* The append that was assigned position p completes.
LogWrite ==
  /\ Running
  /\ \E p \in 0..(Len(log) - 1) :
       /\ log[p + 1] = NotWritten
       /\ \E e \in {IntentionEntry} \cup {AfterImageEntry(r) : r \in Refs(p)} :
            log' = [log EXCEPT ![p + 1] = e]
  /\ UNCHANGED <<callerVars, inflight, svcVars, histVars, irVars, ioVars, amVars, aborted,
                 stopVars, waitVars>>

\* EntryService::Append(cruzdb_proto::AfterImage&): append an after-image entry
AppendAfterImage(max) ==
  /\ Running
  /\ Len(log) < max
  /\ \E r \in Refs(Len(log)) : log' = Append(log, AfterImageEntry(r))
  /\ UNCHANGED <<callerVars, inflight, svcVars, histVars, irVars, ioVars, amVars, aborted,
                 stopVars, waitVars>>

\* EntryService::AppendIntention, lines 62-65: the log append returned *pos
AppendIntention(max) ==
  /\ Running
  /\ Len(log) < max
  /\ log' = Append(log, IntentionEntry)
  /\ inflight' = inflight \cup {Len(log)}
  /\ UNCHANGED <<callerVars, svcVars, histVars, irVars, ioVars, amVars, aborted, stopVars, waitVars>>

\* EntryCache::Insert
Insert(c, p) ==
  LET kept == IF Cardinality(c) > CacheCap THEN c \ {SetMin(c)} ELSE c
  IN  kept \cup {p}

\* EntryCache::FindIntention
FindIntention(p) == p \in cache_

\* EntryService::AppendIntention, line 66: cache_.Insert(std::move(intention))
AppendIntentionInsert ==
  /\ Running
  /\ \E p \in inflight :
       /\ cache_' = Insert(cache_, p)
       /\ inflight' = inflight \ {p}
  /\ UNCHANGED <<callerVars, log, stop_, intention_queues_, entry_cache_, histVars, irVars,
                 ioVars, amVars, aborted, stopVars, waitVars>>

\* ------------------------------------------------------------------ queues
\* IntentionQueue::IntentionQueue
IntentionQueue(p) == [pos_ |-> p, q_ |-> <<>>, stop_ |-> FALSE]

\* IntentionQueue::Position
Position(q) == q.pos_

\* IntentionQueue::Push (the assert is the caller's guard, see PushAssert)
Push(q, p) == [q EXCEPT !.pos_ = p + 1, !.q_ = Append(@, p)]

\* IntentionQueue::Push, line 275: assert(pos_ <= intention.Position())
PushAssert(q, p) == q.pos_ <= p

\* IntentionReader, lines 88-91: min pos requested by any queue
MinPos(qs) == SetMin({Position(qs[i]) : i \in DOMAIN qs})

\* EntryService::NewIntentionQueue(pos), for a pos below max and at most
\* maxq queues
NewIntentionQueue(max, maxq) ==
  /\ Running
  /\ Len(intention_queues_) < maxq
  /\ \E p \in 0..(max - 1) :
       /\ intention_queues_' = Append(intention_queues_, IntentionQueue(p))
       /\ q_start' = Append(q_start, p)
       /\ q_recv' = Append(q_recv, <<>>)
       /\ q_rewind' = Append(q_rewind,
                             /\ intention_queues_ # <<>>
                             /\ p < MinPos(intention_queues_))
       /\ q_reg' = Append(q_reg, stop_pc)
       /\ w_pc' = Append(w_pc, "idle")
       /\ q_taken' = Append(q_taken, <<>>)
  /\ UNCHANGED <<callerVars, logVars, stop_, cache_, entry_cache_, irVars, ioVars, amVars,
                 aborted, stopVars>>

\* condition_variable::notify_one / notify_all on a queue's cond_: its
\* consumer, if blocked in wait(), is made runnable and re-checks the predicate
Notify(w) == IF w = "waiting" THEN "woken" ELSE w

\* Eligible with the guard forgotten: every queue is pushed every intention
EligibleAlways(q, p) == TRUE

\* IntentionReader, lines 113 and 141: if (pos >= q->Position())
Eligible(q, p) == p >= Position(q)

\* IntentionReader, lines 111-117 and 139-145: push pos to every eligible queue.
\* When the assert in Push fails the process aborts, or carries on in a build
\* with NDEBUG.
PushAll(p) ==
  LET elig == {i \in DOMAIN intention_queues_ : Eligible(intention_queues_[i], p)}
  IN  \/ /\ \E i \in elig : ~PushAssert(intention_queues_[i], p)
         /\ aborted' = TRUE
         /\ UNCHANGED <<intention_queues_, q_recv, w_pc>>
      \/ /\ UNCHANGED aborted
         /\ intention_queues_' =
              [i \in DOMAIN intention_queues_ |->
                 IF i \in elig THEN Push(intention_queues_[i], p)
                 ELSE intention_queues_[i]]
         /\ q_recv' =
              [i \in DOMAIN q_recv |->
                 IF i \in elig THEN Append(q_recv[i], p) ELSE q_recv[i]]
         /\ w_pc' =
              [i \in DOMAIN w_pc |-> IF i \in elig THEN Notify(w_pc[i]) ELSE w_pc[i]]

\* IntentionReader, lines 77-105: under lock_, check stop_ and compute min_pos;
\* then decide between starting, rewinding and continuing at pos
IntentionReaderTop ==
  /\ Running
  /\ ir_pc = "top"
  /\ IF stop_
     THEN ir_pc' = "done" /\ UNCHANGED <<pos, last_min_pos>>
     ELSE IF intention_queues_ = <<>>
     THEN ir_pc' = "top" /\ last_min_pos' = None /\ UNCHANGED pos
     ELSE LET min_pos == MinPos(intention_queues_)
              first == last_min_pos = None
              lmp == IF first THEN min_pos ELSE last_min_pos
          IN  /\ pos' = IF first THEN min_pos ELSE pos
              /\ IF min_pos < lmp
                 THEN ir_pc' = "top" /\ last_min_pos' = None
                 ELSE ir_pc' = "find" /\ last_min_pos' = min_pos
  /\ UNCHANGED <<callerVars, logVars, svcVars, histVars, ioVars, amVars, aborted, stopVars,
                 waitVars>>

\* IntentionReader, lines 109-110: cache_.FindIntention(pos)
IntentionReaderFind ==
  /\ Running
  /\ ir_pc = "find"
  /\ ir_pc' = IF FindIntention(pos) THEN "push_cached" ELSE "read"
  /\ UNCHANGED <<callerVars, logVars, svcVars, histVars, pos, last_min_pos, ioVars, amVars,
                 aborted, stopVars, waitVars>>

\* IntentionReader, lines 111-120: deliver the cached intention, pos++
IntentionReaderPushCached ==
  /\ Running
  /\ ir_pc = "push_cached"
  /\ PushAll(pos)
  /\ pos' = pos + 1
  /\ ir_pc' = "top"
  /\ UNCHANGED <<callerVars, logVars, stop_, cache_, entry_cache_, q_start, q_rewind, q_reg,
                 last_min_pos, ioVars, amVars, stopVars, q_taken>>

\* IntentionReader, lines 124-137 and 148-156: log_->Read(pos); -ENOENT retries,
\* an after-image is skipped, an intention goes on to be delivered
IntentionReaderRead ==
  /\ Running
  /\ ir_pc = "read"
  /\ LET entry == Read(pos)
     IN  CASE entry.type = "NW" -> ir_pc' = "top" /\ UNCHANGED pos
           [] entry.type = "I" -> ir_pc' = "push_read" /\ UNCHANGED pos
           [] entry.type = "AI" -> ir_pc' = "top" /\ pos' = pos + 1
  /\ UNCHANGED <<callerVars, logVars, svcVars, histVars, last_min_pos, ioVars, amVars,
                 aborted, stopVars, waitVars>>

\* IntentionReader, lines 138-146 and 156: deliver the intention read, pos++
IntentionReaderPushRead ==
  /\ Running
  /\ ir_pc = "push_read"
  /\ PushAll(pos)
  /\ pos' = pos + 1
  /\ ir_pc' = "top"
  /\ UNCHANGED <<callerVars, logVars, stop_, cache_, entry_cache_, q_start, q_rewind, q_reg,
                 last_min_pos, ioVars, amVars, stopVars, q_taken>>

\* IntentionQueue::Wait, line 256: the predicate of cond_.wait
WaitPredicate(q) == q.q_ # <<>> \/ q.stop_

\* IntentionQueue::Wait, lines 257-263, once the predicate holds: boost::none
\* when stopped ("sentinel"), else the front intention is popped and returned
WaitReturn(i) ==
  LET q == intention_queues_[i]
  IN  IF q.stop_
      THEN /\ w_pc' = [w_pc EXCEPT ![i] = "sentinel"]
           /\ UNCHANGED <<intention_queues_, q_taken>>
      ELSE /\ w_pc' = [w_pc EXCEPT ![i] = "idle"]
           /\ q_taken' = [q_taken EXCEPT ![i] = Append(@, Head(q.q_))]
           /\ intention_queues_' = [intention_queues_ EXCEPT ![i].q_ = Tail(@)]

\* IntentionQueue::Wait called by the queue's consumer: return at once when
\* the predicate holds, else block on cond_
Wait ==
  /\ Running
  /\ \E i \in DOMAIN intention_queues_ :
       /\ w_pc[i] \in {"idle", "sentinel"}
       /\ IF WaitPredicate(intention_queues_[i])
          THEN WaitReturn(i)
          ELSE w_pc' = [w_pc EXCEPT ![i] = "waiting"]
               /\ UNCHANGED <<intention_queues_, q_taken>>
  /\ UNCHANGED <<callerVars, logVars, stop_, cache_, entry_cache_, histVars, irVars, ioVars,
                 amVars, aborted, stopVars>>

\* IntentionQueue::Wait: a notified consumer re-acquires the lock and
\* re-checks the predicate
WaitWake ==
  /\ Running
  /\ \E i \in DOMAIN intention_queues_ :
       /\ w_pc[i] = "woken"
       /\ IF WaitPredicate(intention_queues_[i])
          THEN WaitReturn(i)
          ELSE w_pc' = [w_pc EXCEPT ![i] = "waiting"]
               /\ UNCHANGED <<intention_queues_, q_taken>>
  /\ UNCHANGED <<callerVars, logVars, stop_, cache_, entry_cache_, histVars, irVars, ioVars,
                 amVars, aborted, stopVars>>

\* ------------------------------------------------------------------ matcher
\* PrimaryAfterImage{pos, tree, delta}: pos is the after-image position
\* observed (or boost::none), tree says whether the pending tree is held
Slot(p, t) == [pos |-> p, tree |-> t]

\* the pair (delta, tree) of intention ipos, its tree's after-image set to ai
Pair(ipos, ai) == [ipos |-> ipos, ai |-> ai]

\* Emplace replacing the value of a key already present (insert_or_assign)
EmplaceOverwrite(m, k, v) == [x \in DOMAIN m \cup {k} |-> IF x = k THEN v ELSE m[x]]

\* std::map::emplace: a key already present keeps its value
Emplace(m, k, v) ==
  IF k \in DOMAIN m THEN m ELSE [x \in DOMAIN m \cup {k} |-> IF x = k THEN v ELSE m[x]]

\* std::map::erase
Erase(m, k) == [x \in DOMAIN m \ {k} |-> m[x]]

\* gc, line 421: both sides of the slot are gone
SlotDone(pai) == pai.pos = None /\ ~pai.tree

\* gc, line 419: assert(matched_watermark_ < ipos)
GcAssert(wm, ipos) == wm < ipos

\* PrimaryAfterImageMatcher::gc: walk the index from its smallest key, erase
\* the slots that are done and move the watermark to the last one erased;
\* ok says whether every assert evaluated on the way held
RECURSIVE gc(_, _)
gc(idx, wm) ==
  IF DOMAIN idx = {}
  THEN [afterimages |-> idx, watermark |-> wm, ok |-> TRUE]
  ELSE LET ipos == SetMin(DOMAIN idx)
       IN  IF SlotDone(idx[ipos])
           THEN LET r == gc(Erase(idx, ipos), ipos)
                IN  [r EXCEPT !.ok = @ /\ GcAssert(wm, ipos)]
           ELSE [afterimages |-> idx, watermark |-> wm, ok |-> GcAssert(wm, ipos)]

\* the call of gc() that ends watch and push, on the index idx they left:
\* when an assert fails the process aborts, or carries on in a build with NDEBUG
Collect(idx) ==
  LET r == gc(idx, matched_watermark_)
  IN  \/ /\ ~r.ok
         /\ aborted' = TRUE
         /\ afterimages_' = idx
         /\ UNCHANGED matched_watermark_
      \/ /\ UNCHANGED aborted
         /\ afterimages_' = r.afterimages
         /\ matched_watermark_' = r.watermark

\* condition_variable::notify_one on the matcher's cond_: one of the threads
\* blocked in match(), if any, is made runnable
NotifyOne(pcs) ==
  LET blocked == {t \in DOMAIN pcs : pcs[t] = "waiting"}
  IN  IF blocked = {} THEN {pcs} ELSE {[pcs EXCEPT ![t] = "woken"] : t \in blocked}

\* watch/push, lines 355-357 and 379-381: the pair goes on matched_
Emit(pair) ==
  /\ matched_' = Append(matched_, pair)
  /\ enqueued' = Append(enqueued, pair)
  /\ m_pc' \in NotifyOne(m_pc)

\* PrimaryAfterImageMatcher::watch(delta, tree) for the tree of intention ipos
watch(ipos) ==
  /\ watched' = watched \cup {ipos}
  /\ IF ipos \notin DOMAIN afterimages_
     THEN /\ Collect(Emplace(afterimages_, ipos, Slot(None, TRUE)))
          /\ UNCHANGED <<matched_, enqueued, m_pc>>
     ELSE IF afterimages_[ipos].pos = None \/ afterimages_[ipos].tree
     THEN \* lines 351-352: assert(it->second.pos); assert(!it->second.tree)
          /\ aborted' = TRUE
          /\ UNCHANGED <<afterimages_, matched_, matched_watermark_, enqueued, m_pc>>
     ELSE /\ Emit(Pair(ipos, afterimages_[ipos].pos))
          /\ Collect([afterimages_ EXCEPT ![ipos].pos = None])

\* Handled with the comparison off by one: the watermark position itself passes
HandledBelow(ipos, wm) == ipos < wm

\* push, line 369: the after-image is for an intention at or below the watermark
Handled(ipos, wm) == ipos <= wm

\* AwaitingRemote without the test that the tree is still held
AwaitingRemoteNoTree(pai) == pai.pos = None

\* push, line 376: the slot holds a pending tree and no observed position
AwaitingRemote(pai) == pai.pos = None /\ pai.tree

\* push keeping the latest after-image position of a slot that already holds
\* one, instead of the first
pushKeepLast(ipos, p) ==
  /\ pushes' = Append(pushes, <<ipos, p>>)
  /\ IF Handled(ipos, matched_watermark_)
     THEN UNCHANGED <<afterimages_, matched_, matched_watermark_, enqueued, m_pc,
                      aborted>>
     ELSE IF ipos \notin DOMAIN afterimages_
     THEN /\ Collect(Emplace(afterimages_, ipos, Slot(p, FALSE)))
          /\ UNCHANGED <<matched_, enqueued, m_pc>>
     ELSE IF AwaitingRemote(afterimages_[ipos])
     THEN /\ Emit(Pair(ipos, p))
          /\ Collect([afterimages_ EXCEPT ![ipos].tree = FALSE])
     ELSE /\ Collect(IF afterimages_[ipos].pos # None
                     THEN [afterimages_ EXCEPT ![ipos].pos = p] ELSE afterimages_)
          /\ UNCHANGED <<matched_, enqueued, m_pc>>

\* push recording the position in a slot that holds a pending tree, instead
\* of completing the rendezvous
pushStorePos(ipos, p) ==
  /\ pushes' = Append(pushes, <<ipos, p>>)
  /\ IF Handled(ipos, matched_watermark_)
     THEN UNCHANGED <<afterimages_, matched_, matched_watermark_, enqueued, m_pc,
                      aborted>>
     ELSE IF ipos \notin DOMAIN afterimages_
     THEN /\ Collect(Emplace(afterimages_, ipos, Slot(p, FALSE)))
          /\ UNCHANGED <<matched_, enqueued, m_pc>>
     ELSE /\ Collect([afterimages_ EXCEPT ![ipos].pos = p])
          /\ UNCHANGED <<matched_, enqueued, m_pc>>

\* PrimaryAfterImageMatcher::push(ai, p) with ai.intention() = ipos
push(ipos, p) ==
  /\ pushes' = Append(pushes, <<ipos, p>>)
  /\ IF Handled(ipos, matched_watermark_)
     THEN UNCHANGED <<afterimages_, matched_, matched_watermark_, enqueued, m_pc,
                      aborted>>
     ELSE IF ipos \notin DOMAIN afterimages_
     THEN /\ Collect(Emplace(afterimages_, ipos, Slot(p, FALSE)))
          /\ UNCHANGED <<matched_, enqueued, m_pc>>
     ELSE IF AwaitingRemote(afterimages_[ipos])
     THEN /\ Emit(Pair(ipos, p))
          /\ Collect([afterimages_ EXCEPT ![ipos].tree = FALSE])
     ELSE /\ Collect(afterimages_)
          /\ UNCHANGED <<matched_, enqueued, m_pc>>

\* the database commit path: the tree of an appended intention, whose log
\* position is unique, is handed to the matcher once
Watch ==
  /\ Running
  /\ \E ipos \in {p \in 0..(Len(log) - 1) : IsIntention(p)} \ watched : watch(ipos)
  /\ UNCHANGED <<callerVars, logVars, svcVars, histVars, irVars, ioVars, shutdown_, returned,
                 pushes, stopVars, waitVars>>

\* match, line 393: the predicate of cond_.wait
MatchPredicate == matched_ # <<>> \/ shutdown_

\* MatchReturn taking the pair from the back of matched_
MatchReturnBack(t) ==
  IF shutdown_
  THEN /\ m_pc' = [m_pc EXCEPT ![t] = "empty"]
       /\ UNCHANGED <<matched_, returned>>
  ELSE /\ m_pc' = [m_pc EXCEPT ![t] = "idle"]
       /\ returned' = Append(returned, Last(matched_))
       /\ matched_' = SubSeq(matched_, 1, Len(matched_) - 1)

\* match, lines 395-404, once the predicate holds: the empty pair on
\* shutdown ("empty"), else the front of matched_ is popped and returned
MatchReturn(t) ==
  IF shutdown_
  THEN /\ m_pc' = [m_pc EXCEPT ![t] = "empty"]
       /\ UNCHANGED <<matched_, returned>>
  ELSE /\ m_pc' = [m_pc EXCEPT ![t] = "idle"]
       /\ returned' = Append(returned, Head(matched_))
       /\ matched_' = Tail(matched_)

\* PrimaryAfterImageMatcher::match called by thread t: return at once when
\* the predicate holds, else block on cond_
Match ==
  /\ Running
  /\ \E t \in DOMAIN m_pc :
       /\ m_pc[t] \in {"idle", "empty"}
       /\ IF MatchPredicate
          THEN MatchReturn(t)
          ELSE m_pc' = [m_pc EXCEPT ![t] = "waiting"] /\ UNCHANGED <<matched_, returned>>
  /\ UNCHANGED <<callerVars, logVars, svcVars, histVars, irVars, ioVars, afterimages_,
                 matched_watermark_, shutdown_, watched, pushes, enqueued, aborted,
                 stopVars, waitVars>>

\* match: a notified thread re-acquires the lock and re-checks the predicate
MatchWake ==
  /\ Running
  /\ \E t \in DOMAIN m_pc :
       /\ m_pc[t] = "woken"
       /\ IF MatchPredicate
          THEN MatchReturn(t)
          ELSE m_pc' = [m_pc EXCEPT ![t] = "waiting"] /\ UNCHANGED <<matched_, returned>>
  /\ UNCHANGED <<callerVars, logVars, svcVars, histVars, irVars, ioVars, afterimages_,
                 matched_watermark_, shutdown_, watched, pushes, enqueued, aborted,
                 stopVars, waitVars>>

\* PrimaryAfterImageMatcher::shutdown
shutdown ==
  /\ shutdown_' = TRUE
  /\ m_pc' \in NotifyOne(m_pc)

\* ------------------------------------------------------------------ IO loop
\* the IO loop's thread, among the threads that make shared references
\* (the callers of ReadIntentions are 1, 2, ...)
IOThread == 0

\* CacheEntry: its type and the thread that made the shared reference
CacheEntry(type, by) == [type |-> type, by |-> by]

\* IOEntry, lines 165-169: under lock_, leave the loop when stop_ is set
IOEntryCheckStop ==
  /\ Running
  /\ io_pc = "check_stop"
  /\ io_pc' = IF stop_ THEN "done" ELSE "check_tail"
  /\ UNCHANGED <<callerVars, logVars, svcVars, histVars, irVars, next, tail, amVars, aborted,
                 stopVars, waitVars>>

\* IOEntry, lines 170-175: tail = CheckTail(); sleep and start over at the tail
IOEntryCheckTail ==
  /\ Running
  /\ io_pc = "check_tail"
  /\ tail' = CheckTail
  /\ IF next <= CheckTail
     THEN /\ io_pc' = IF next = CheckTail THEN "check_stop" ELSE "inner"
          /\ UNCHANGED aborted
     ELSE \* line 171: assert(next <= tail)
          /\ aborted' = TRUE
          /\ UNCHANGED io_pc
  /\ UNCHANGED <<callerVars, logVars, svcVars, histVars, irVars, next, amVars, stopVars, waitVars>>

\* IOEntry, lines 176-180 and 224: while (next < tail), skip a position that
\* entry_cache_ already holds
IOEntryInner ==
  /\ Running
  /\ io_pc = "inner"
  /\ IF next < tail
     THEN IF next \in DOMAIN entry_cache_
          THEN next' = next + 1 /\ UNCHANGED io_pc
          ELSE io_pc' = "read" /\ UNCHANGED next
     ELSE io_pc' = "check_stop" /\ UNCHANGED next
  /\ UNCHANGED <<callerVars, logVars, svcVars, histVars, irVars, tail, amVars, aborted, stopVars,
                 waitVars>>

\* IOEntryRead moving past a position that reads -ENOENT
IOEntryReadSkipHole ==
  /\ Running
  /\ io_pc = "read"
  /\ LET entry == Read(next)
     IN  /\ io_pc' = CASE entry.type = "NW" -> "inner"
                       [] entry.type = "AI" -> "push"
                       [] entry.type = "I" -> "insert"
         /\ next' = IF entry.type = "NW" THEN next + 1 ELSE next
  /\ UNCHANGED <<callerVars, logVars, svcVars, histVars, irVars, tail, amVars, aborted,
                 stopVars, waitVars>>

\* IOEntry, lines 181-217: log_->Read(next); -ENOENT goes back to the inner
\* loop's condition without advancing, else the entry is classified
IOEntryRead ==
  /\ Running
  /\ io_pc = "read"
  /\ LET entry == Read(next)
     IN  io_pc' = CASE entry.type = "NW" -> "inner"
                    [] entry.type = "AI" -> "push"
                    [] entry.type = "I" -> "insert"
  /\ UNCHANGED <<callerVars, logVars, svcVars, histVars, irVars, next, tail, amVars, aborted,
                 stopVars, waitVars>>

\* IOEntry, line 205: ai_matcher.push(entry.after_image(), next)
IOEntryPush ==
  /\ Running
  /\ io_pc = "push"
  /\ push(Read(next).ref, next)
  /\ io_pc' = "insert"
  /\ UNCHANGED <<callerVars, logVars, svcVars, histVars, irVars, next, tail, shutdown_, returned,
                 watched, stopVars, waitVars>>

\* IOEntry, lines 219-224: under lock_, entry_cache_.emplace(next, cache_entry);
\* next++
IOEntryInsert ==
  /\ Running
  /\ io_pc = "insert"
  /\ entry_cache_' = Emplace(entry_cache_, next, CacheEntry(Read(next).type, IOThread))
  /\ next' = next + 1
  /\ io_pc' = "inner"
  /\ UNCHANGED <<callerVars, logVars, stop_, intention_queues_, cache_, histVars, irVars, tail,
                 amVars, aborted, stopVars, waitVars>>

\* ------------------------------------------------------------------ ReadIntentions
\* a shared reference to the intention at position p obtained by a caller:
\* by is the thread that made the reference, lost says that the caller had
\* found the position missing in its lookup, made a reference of its own and
\* was handed another thread's
Ref(p, by, lost) == [pos |-> p, by |-> by, lost |-> lost]

\* EntryService::ReadIntentions(addrs), lines 284-299: under lock_, look every
\* position up in entry_cache_; the hits give their cached reference, the
\* others are missing. addrs holds the position of a written intention (a
\* call with several positions does the same for each of them).
ReadIntentions ==
  /\ Running
  /\ \E r \in DOMAIN ri_pc :
       /\ ri_pc[r] = "idle"
       /\ \E addrs \in {{p} : p \in {x \in 0..(Len(log) - 1) : IsIntention(x)}} :
            LET hits == addrs \cap DOMAIN entry_cache_
            IN  /\ handed' = handed \cup {Ref(p, entry_cache_[p].by, FALSE) : p \in hits}
                /\ ri_missing' = [ri_missing EXCEPT ![r] = addrs \ hits]
                /\ ri_pc' = [ri_pc EXCEPT ![r] = IF addrs \ hits = {} THEN "idle" ELSE "read"]
  /\ UNCHANGED <<logVars, svcVars, histVars, irVars, ioVars, amVars, aborted, stopVars,
                 waitVars, txVars, lockVars>>

\* ReadIntentions, lines 300-318: outside the lock, log_->Read(pos) of the
\* next missing position and std::make_shared of the intention read;
\* the asserts require the read to succeed with an intention
ReadIntentionsRead ==
  /\ Running
  /\ \E r \in DOMAIN ri_pc :
       /\ ri_pc[r] = "read"
       /\ IF IsIntention(SetMin(ri_missing[r]))
          THEN ri_pc' = [ri_pc EXCEPT ![r] = "emplace"] /\ UNCHANGED aborted
          ELSE aborted' = TRUE /\ UNCHANGED ri_pc
  /\ UNCHANGED <<logVars, svcVars, histVars, irVars, ioVars, amVars, stopVars, waitVars,
                 ri_missing, handed, txVars, lockVars>>

\* ReadIntentions, lines 320-324: under lock_, entry_cache_.emplace(pos,
\* cache_entry); the caller takes the reference the cache holds
\* (p.first->second.intention), then goes on to the next missing position
ReadIntentionsEmplace ==
  /\ Running
  /\ \E r \in DOMAIN ri_pc :
       /\ ri_pc[r] = "emplace"
       /\ LET p == SetMin(ri_missing[r])
              rest == ri_missing[r] \ {p}
          IN  /\ entry_cache_' = Emplace(entry_cache_, p, CacheEntry("I", r))
              /\ handed' = handed \cup {Ref(p, entry_cache_'[p].by, entry_cache_'[p].by # r)}
              /\ ri_missing' = [ri_missing EXCEPT ![r] = rest]
              /\ ri_pc' = [ri_pc EXCEPT ![r] = IF rest = {} THEN "idle" ELSE "read"]
  /\ UNCHANGED <<logVars, stop_, intention_queues_, cache_, histVars, irVars, ioVars,
                 amVars, aborted, stopVars, waitVars, txVars, lockVars>>

\* ------------------------------------------------------------------ transaction
\* the keys a transaction reads and writes
TxKeys == {"a", "b"}

\* an operation recorded in the intention
Op(kind, key) == <<kind, key>>

\* PersistentTree::Put and PersistentTree::Delete on the tentative tree
TreePut(t, key) == [k \in DOMAIN t \cup {key} |-> IF k = key THEN "put" ELSE t[k]]

TreeDelete(t, key) == [k \in DOMAIN t \cup {key} |-> IF k = key THEN "del" ELSE t[k]]

\* PersistentTree::ReadOnly: the tentative tree has seen no mutation
ReadOnly(t) == DOMAIN t = {}

\* DBImpl::CompleteTransaction: the commit path appends the intention to the
\* log and returns the commit decision
CompleteTransaction ==
  /\ log' = Append(log, IntentionEntry)
  /\ tx_ret' \in {"true", "false"}

\* TransactionImpl::TransactionImpl: a client begins its next transaction
\* once it has committed the one before
Begin ==
  /\ Running
  /\ committed_
  /\ committed_' = FALSE
  /\ intention_' = {}
  /\ tree_' = <<>>
  /\ tx_ret' = "none"
  /\ tx_log0' = Len(log)
  /\ UNCHANGED <<logVars, svcVars, histVars, irVars, ioVars, amVars, aborted, stopVars,
                 waitVars, riVars, lockVars>>

\* TransactionImpl::Get (its asserts require !committed_)
Get ==
  /\ Running
  /\ ~committed_
  /\ \E key \in TxKeys : intention_' = intention_ \cup {Op("Get", key)}
  /\ UNCHANGED <<logVars, svcVars, histVars, irVars, ioVars, amVars, aborted, stopVars,
                 waitVars, riVars, lockVars, committed_, tree_, tx_ret, tx_log0>>

\* TransactionImpl::Put
Put ==
  /\ Running
  /\ ~committed_
  /\ \E key \in TxKeys :
       /\ intention_' = intention_ \cup {Op("Put", key)}
       /\ tree_' = TreePut(tree_, key)
  /\ UNCHANGED <<logVars, svcVars, histVars, irVars, ioVars, amVars, aborted, stopVars,
                 waitVars, riVars, lockVars, committed_, tx_ret, tx_log0>>

\* TransactionImpl::Delete
Delete ==
  /\ Running
  /\ ~committed_
  /\ \E key \in TxKeys :
       /\ intention_' = intention_ \cup {Op("Delete", key)}
       /\ tree_' = TreeDelete(tree_, key)
  /\ UNCHANGED <<logVars, svcVars, histVars, irVars, ioVars, amVars, aborted, stopVars,
                 waitVars, riVars, lockVars, committed_, tx_ret, tx_log0>>

\* Commit handing every transaction to the commit path
CommitAlwaysComplete ==
  /\ Running
  /\ ~committed_
  /\ Len(log) < MaxLogTx
  /\ committed_' = TRUE
  /\ CompleteTransaction
  /\ UNCHANGED <<inflight, svcVars, histVars, irVars, ioVars, amVars, aborted, stopVars,
                 waitVars, riVars, lockVars, intention_, tree_, tx_log0>>

\* TransactionImpl::Commit: committed_ = true; a read-only tree returns true
\* at once, any other goes to db_->CompleteTransaction (while the log has
\* room for its intention)
Commit ==
  /\ Running
  /\ ~committed_
  /\ ReadOnly(tree_) \/ Len(log) < MaxLogTx
  /\ committed_' = TRUE
  /\ IF ReadOnly(tree_)
     THEN tx_ret' = "true" /\ UNCHANGED log
     ELSE CompleteTransaction
  /\ UNCHANGED <<inflight, svcVars, histVars, irVars, ioVars, amVars, aborted, stopVars,
                 waitVars, riVars, lockVars, intention_, tree_, tx_log0>>

\* ------------------------------------------------------------------ Stop
\* IntentionQueue::Stop, lines 246-249: under the queue's lock, stop_ = true
QueueStopFlag(q) == [q EXCEPT !.stop_ = TRUE]

\* Stop, lines 22-25: under lock_, stop_ = true
StopSetFlag ==
  /\ Running
  /\ stop_pc = "idle"
  /\ stop_' = TRUE
  /\ stop_pc' = "shutdown"
  /\ UNCHANGED <<callerVars, logVars, intention_queues_, cache_, entry_cache_, histVars, irVars,
                 ioVars, amVars, aborted, stop_i, stop_end, waitVars>>

\* Stop, lines 27-29: ai_matcher.shutdown(), then the range-for over
\* intention_queues_ takes its begin and end
StopShutdown ==
  /\ Running
  /\ stop_pc = "shutdown"
  /\ shutdown
  /\ stop_pc' = "queue_flag"
  /\ stop_i' = 1
  /\ stop_end' = Len(intention_queues_)
  /\ UNCHANGED <<callerVars, logVars, svcVars, histVars, irVars, ioVars, afterimages_, matched_,
                 matched_watermark_, returned, watched, pushes, enqueued, aborted,
                 waitVars>>

\* Stop, lines 29-31: the loop's test. The loop holds no lock, so a
\* NewIntentionQueue that ran since the loop began races with it (the vector
\* may have been reallocated under the iterators): the loop then ends at the
\* end it took, or goes on to the queues added, or the process crashes.
StopQueuesTest ==
  /\ Running
  /\ stop_pc = "queue_flag"
  /\ stop_i > stop_end
  /\ \/ stop_pc' = "join_reader" /\ UNCHANGED <<stop_end, aborted>>
     \/ /\ Len(intention_queues_) > stop_end
        /\ stop_end' = Len(intention_queues_)
        /\ UNCHANGED <<stop_pc, aborted>>
     \/ /\ Len(intention_queues_) > stop_end
        /\ aborted' = TRUE
        /\ UNCHANGED <<stop_pc, stop_end>>
  /\ UNCHANGED <<callerVars, logVars, svcVars, histVars, irVars, ioVars, amVars, stop_i, waitVars>>

\* Stop, line 30, and IntentionQueue::Stop, lines 246-249: q->Stop() sets the
\* queue's stop_
StopQueueFlag ==
  /\ Running
  /\ stop_pc = "queue_flag"
  /\ stop_i <= stop_end
  /\ intention_queues_' = [intention_queues_ EXCEPT ![stop_i] = QueueStopFlag(@)]
  /\ stop_pc' = "queue_notify"
  /\ UNCHANGED <<callerVars, logVars, stop_, cache_, entry_cache_, histVars, irVars, ioVars,
                 amVars, aborted, stop_i, stop_end, waitVars>>

\* IntentionQueue::Stop, line 250: cond_.notify_all(); on to the next queue
StopQueueNotify ==
  /\ Running
  /\ stop_pc = "queue_notify"
  /\ w_pc' = [w_pc EXCEPT ![stop_i] = Notify(@)]
  /\ stop_i' = stop_i + 1
  /\ stop_pc' = "queue_flag"
  /\ UNCHANGED <<callerVars, logVars, svcVars, histVars, irVars, ioVars, amVars, aborted,
                 stop_end, q_taken>>

\* Stop, line 33: intention_reader_.join()
StopJoinReader ==
  /\ Running
  /\ stop_pc = "join_reader"
  /\ ir_pc = "done"
  /\ stop_pc' = "join_io"
  /\ UNCHANGED <<callerVars, logVars, svcVars, histVars, irVars, ioVars, amVars, aborted, stop_i,
                 stop_end, waitVars>>

\* Stop, line 34: io_thread_.join()
StopJoinIO ==
  /\ Running
  /\ stop_pc = "join_io"
  /\ io_pc = "done"
  /\ stop_pc' = "done"
  /\ UNCHANGED <<callerVars, logVars, svcVars, histVars, irVars, ioVars, amVars, aborted, stop_i,
                 stop_end, waitVars>>

\* ------------------------------------------------------------------ locking
\* The mutexes: EntryService::lock_, EntryCache::lock_, IntentionQueue::lock_
\* and PrimaryAfterImageMatcher::lock_.
Mutexes == {"svc", "cache", "q", "m"}

\* One instruction of a thread's code: op is "lock" or "unlock" (of mutex mu),
\* "log" (a call of the shared log: Read, Append, CheckTail), "branch" or
\* "join"; to holds the instructions that may follow (0: the thread returns).
Instr(op, mu, to) == [op |-> op, mu |-> mu, to |-> to]

\* EntryService::IntentionReader
IntentionReaderCode ==
  << Instr("lock", "svc", {2}),        \* 1: line 77
     Instr("branch", "", {3, 4, 5}),  \* 2: lines 79, 82, 88
     Instr("unlock", "svc", {0}),      \* 3: line 80, return
     Instr("unlock", "svc", {1}),      \* 4: line 84, continue
     Instr("lock", "q", {6}),          \* 5: lines 88-91, q->Position()
     Instr("unlock", "q", {5, 7}),     \* 6: line 270
     Instr("unlock", "svc", {8}),      \* 7: line 93
     Instr("branch", "", {1, 9}),     \* 8: lines 95-105
     Instr("lock", "cache", {10}),     \* 9: line 109, FindIntention
     Instr("unlock", "cache", {11, 16}), \* 10: lines 53-56
     Instr("lock", "svc", {12}),       \* 11: lines 111 and 139
     Instr("branch", "", {13, 15}),   \* 12: lines 112-113 and 140-141
     Instr("lock", "q", {14}),         \* 13: lines 114 and 142, q->Push
     Instr("unlock", "q", {12}),       \* 14: line 279
     Instr("unlock", "svc", {1}),      \* 15: lines 117 and 145
     Instr("log", "", {1, 11}) >>      \* 16: line 125, log_->Read

\* IOEntryCode taking lock_ again before, not after, ai_matcher.push
IOEntryCodeHeld ==
  << Instr("lock", "svc", {2}),
     Instr("unlock", "svc", {0, 3}),
     Instr("log", "", {1, 4}),
     Instr("lock", "svc", {5}),
     Instr("branch", "", {6, 7}),
     Instr("unlock", "svc", {1, 4}),
     Instr("unlock", "svc", {8}),
     Instr("log", "", {4, 11}),
     Instr("lock", "m", {10}),
     Instr("unlock", "m", {12}),
     Instr("lock", "svc", {9, 12}),
     Instr("unlock", "svc", {1, 4}) >>

\* EntryService::IOEntry
IOEntryCode ==
  << Instr("lock", "svc", {2}),        \* 1: line 166
     Instr("unlock", "svc", {0, 3}),   \* 2: lines 167-169
     Instr("log", "", {1, 4}),         \* 3: line 170, CheckTail
     Instr("lock", "svc", {5}),        \* 4: line 177
     Instr("branch", "", {6, 7}),     \* 5: lines 178-179
     Instr("unlock", "svc", {1, 4}),   \* 6: line 222, end of scope on a hit
     Instr("unlock", "svc", {8}),      \* 7: line 180
     Instr("log", "", {4, 9, 11}),     \* 8: line 182, log_->Read
     Instr("lock", "m", {10}),         \* 9: line 205, ai_matcher.push
     Instr("unlock", "m", {11}),       \* 10: line 385
     Instr("lock", "svc", {12}),       \* 11: line 219
     Instr("unlock", "svc", {1, 4}) >> \* 12: line 221

\* EntryService::Stop
StopCode ==
  << Instr("lock", "svc", {2}),        \* 1: line 23
     Instr("unlock", "svc", {3}),      \* 2: line 25
     Instr("lock", "m", {4}),          \* 3: line 27, ai_matcher.shutdown
     Instr("unlock", "m", {5, 7}),     \* 4: line 412
     Instr("lock", "q", {6}),          \* 5: line 30, q->Stop
     Instr("unlock", "q", {5, 7}),     \* 6: line 249
     Instr("join", "", {0}) >>         \* 7: lines 33-34

\* EntryService::NewIntentionQueue
NewIntentionQueueCode ==
  << Instr("lock", "svc", {2}),        \* 1: line 233
     Instr("unlock", "svc", {1}) >>    \* 2: line 236

\* ReadIntentionsCode reading the log without releasing lock_ first
ReadIntentionsCodeHeld ==
  << Instr("lock", "svc", {2}),
     Instr("branch", "", {3, 5}),
     Instr("log", "", {4}),
     Instr("branch", "", {3, 5}),
     Instr("unlock", "svc", {1}) >>

\* EntryService::ReadIntentions
ReadIntentionsCode ==
  << Instr("lock", "svc", {2}),        \* 1: line 288
     Instr("unlock", "svc", {1, 3}),   \* 2: line 299
     Instr("log", "", {4}),            \* 3: line 303, log_->Read
     Instr("lock", "svc", {5}),        \* 4: line 320
     Instr("unlock", "svc", {1, 3}) >> \* 5: line 322

\* EntryService::AppendIntention
AppendIntentionCode ==
  << Instr("log", "", {1, 2}),         \* 1: line 63, log_->Append
     Instr("lock", "cache", {3}),      \* 2: line 66, cache_.Insert
     Instr("unlock", "cache", {1}) >>  \* 3: line 45

\* EntryService::IntentionQueue::Wait
WaitCode ==
  << Instr("lock", "q", {2}),          \* 1: line 255
     Instr("branch", "", {3, 5}),     \* 2: line 256, the predicate
     Instr("unlock", "q", {4}),        \* 3: cond_.wait releases the mutex
     Instr("lock", "q", {2}),          \* 4: and takes it again when woken
     Instr("unlock", "q", {1}) >>      \* 5: lines 258 and 263

\* EntryService::PrimaryAfterImageMatcher::watch
WatchCode ==
  << Instr("lock", "m", {2}),          \* 1: line 340
     Instr("unlock", "m", {1}) >>      \* 2: line 361

\* EntryService::PrimaryAfterImageMatcher::match
MatchCode ==
  << Instr("lock", "m", {2}),          \* 1: line 391
     Instr("branch", "", {3, 5}),     \* 2: line 393, the predicate
     Instr("unlock", "m", {4}),        \* 3: cond_.wait releases the mutex
     Instr("lock", "m", {2}),          \* 4: and takes it again when woken
     Instr("unlock", "m", {1}) >>      \* 5: lines 396 and 404

\* the threads: the two loops, Stop() and the callers of the service
Code ==
  [ir |-> IntentionReaderCode, io |-> IOEntryCode, stop |-> StopCode,
   niq |-> NewIntentionQueueCode, ri |-> ReadIntentionsCode,
   ai |-> AppendIntentionCode, wait |-> WaitCode, watch |-> WatchCode,
   match |-> MatchCode]

Threads == DOMAIN Code

\* the instruction thread t is at (the thread has not returned)
Cur(t) == Code[t][lk_pc[t]]

\* the mutexes thread t holds
Held(t) == {mu \in Mutexes : lk_owner[mu] = t}

\* std::mutex::lock: the thread takes a free mutex (and waits otherwise)
LockAcquire ==
  /\ \E t \in Threads :
       /\ lk_pc[t] # 0
       /\ Cur(t).op = "lock"
       /\ lk_owner[Cur(t).mu] = "free"
       /\ lk_owner' = [lk_owner EXCEPT ![Cur(t).mu] = t]
       /\ \E n \in Cur(t).to : lk_pc' = [lk_pc EXCEPT ![t] = n]
  /\ UNCHANGED <<logVars, svcVars, histVars, irVars, ioVars, amVars, aborted, stopVars,
                 waitVars, riVars, txVars>>

\* std::mutex::unlock, also at the end of a guard's scope and in cond_.wait
LockRelease ==
  /\ \E t \in Threads :
       /\ lk_pc[t] # 0
       /\ Cur(t).op = "unlock"
       /\ lk_owner' = [lk_owner EXCEPT ![Cur(t).mu] = "free"]
       /\ \E n \in Cur(t).to : lk_pc' = [lk_pc EXCEPT ![t] = n]
  /\ UNCHANGED <<logVars, svcVars, histVars, irVars, ioVars, amVars, aborted, stopVars,
                 waitVars, riVars, txVars>>

\* a call of the shared log returns
LogCall ==
  /\ \E t \in Threads :
       /\ lk_pc[t] # 0
       /\ Cur(t).op = "log"
       /\ \E n \in Cur(t).to : lk_pc' = [lk_pc EXCEPT ![t] = n]
  /\ UNCHANGED <<logVars, svcVars, histVars, irVars, ioVars, amVars, aborted, stopVars,
                 waitVars, riVars, txVars, lk_owner>>

\* a test in the code sends the thread one way or the other
Branch ==
  /\ \E t \in Threads :
       /\ lk_pc[t] # 0
       /\ Cur(t).op = "branch"
       /\ \E n \in Cur(t).to : lk_pc' = [lk_pc EXCEPT ![t] = n]
  /\ UNCHANGED <<logVars, svcVars, histVars, irVars, ioVars, amVars, aborted, stopVars,
                 waitVars, riVars, txVars, lk_owner>>

\* Stop, lines 33-34: join() returns once both loops have returned
Join ==
  /\ \E t \in Threads :
       /\ lk_pc[t] # 0
       /\ Cur(t).op = "join"
       /\ lk_pc["ir"] = 0
       /\ lk_pc["io"] = 0
       /\ \E n \in Cur(t).to : lk_pc' = [lk_pc EXCEPT ![t] = n]
  /\ UNCHANGED <<logVars, svcVars, histVars, irVars, ioVars, amVars, aborted, stopVars,
                 waitVars, riVars, txVars, lk_owner>>

\* ------------------------------------------------------------------ initial state
\* EntryService::EntryService, Start(0), PrimaryAfterImageMatcher(): both
\* loops are started on an empty log; nothing is registered, watched or read;
\* n threads are going to call match()
InitWith(n) ==
  /\ log = <<>>
  /\ inflight = {}
  /\ stop_ = FALSE
  /\ intention_queues_ = <<>>
  /\ cache_ = {}
  /\ entry_cache_ = <<>>
  /\ q_start = <<>>
  /\ q_recv = <<>>
  /\ q_rewind = <<>>
  /\ q_reg = <<>>
  /\ ir_pc = "top"
  /\ pos = 0
  /\ last_min_pos = None
  /\ io_pc = "check_stop"
  /\ next = 0
  /\ tail = 0
  /\ afterimages_ = <<>>
  /\ matched_ = <<>>
  /\ matched_watermark_ = 0
  /\ shutdown_ = FALSE
  /\ m_pc = [t \in 1..n |-> "idle"]
  /\ returned = <<>>
  /\ watched = {}
  /\ pushes = <<>>
  /\ enqueued = <<>>
  /\ aborted = FALSE
  /\ stop_pc = "idle"
  /\ stop_i = 0
  /\ stop_end = 0
  /\ w_pc = <<>>
  /\ q_taken = <<>>
  /\ ri_pc = [r \in 1..NumReaders |-> "idle"]
  /\ ri_missing = [r \in 1..NumReaders |-> {}]
  /\ handed = {}
  /\ committed_ = FALSE
  /\ intention_ = {}
  /\ tree_ = <<>>
  /\ tx_ret = "none"
  /\ tx_log0 = 0
  /\ lk_pc = [t \in Threads |-> 1]
  /\ lk_owner = [mu \in Mutexes |-> "free"]

Init == InitWith(NumMatchers)

\* ------------------------------------------------------------------ intention fan-out
\* The intention loop, its queues, AppendIntention and the other writers of
\* the log.  The loop treats -ENOENT below the tail and at the tail alike
\* (it retries the same position), so the log here grows by whole appends.
NextIQ ==
  \/ AppendAfterImage(MaxLogIQ)
  \/ AppendIntention(MaxLogIQ)
  \/ AppendIntentionInsert
  \/ NewIntentionQueue(MaxLogIQ, MaxQueues)
  \/ IntentionReaderTop
  \/ IntentionReaderFind
  \/ IntentionReaderPushCached
  \/ IntentionReaderRead
  \/ IntentionReaderPushRead

SpecIQ == Init /\ [][NextIQ]_vars

\* the intention positions in [lo, hi)
IntentionsIn(lo, hi) == {p \in lo..(hi - 1) : IsIntention(p)}

\* C1: the positions pushed to a queue registered at p0 are strictly
\* increasing (so free of duplicates), are all >= p0, are all positions of
\* Intention entries of the log, and Position() is p0 until the first push
\* and one past the last pushed position afterwards (so it never decreases).
C1_QueueOrdering ==
  \A i \in DOMAIN intention_queues_ :
    /\ \A k \in DOMAIN q_recv[i] :
         /\ q_recv[i][k] >= q_start[i]
         /\ IsIntention(q_recv[i][k])
         /\ k > 1 => q_recv[i][k - 1] < q_recv[i][k]
    /\ Position(intention_queues_[i]) =
         IF q_recv[i] = <<>> THEN q_start[i] ELSE Last(q_recv[i]) + 1

\* C1 witness: a queue registered above position 0 has been pushed two intentions
C1_Witness ==
  \E i \in DOMAIN intention_queues_ : q_start[i] > 0 /\ Len(q_recv[i]) >= 2

\* C2: no intention is missed: when a queue registered at p0 has been pushed
\* the intention at p, it has been pushed every intention at a position in
\* [p0, p) before.
C2_NoIntentionMissed ==
  \A i \in DOMAIN intention_queues_ :
    \A k \in DOMAIN q_recv[i] :
      IntentionsIn(q_start[i], q_recv[i][k]) \subseteq {q_recv[i][j] : j \in 1..(k - 1)}

\* C3: queue rewind: a queue registered at p' below the minimum Position() of
\* the existing queues is delivered from p' on (its first intention is the
\* first one at or after p'), and the older queues receive no duplicates.
C3_QueueRewind ==
  \A i \in DOMAIN intention_queues_ :
    /\ (q_rewind[i] /\ q_recv[i] # <<>>) => IntentionsIn(q_start[i], q_recv[i][1]) = {}
    /\ \A j, k \in DOMAIN q_recv[i] : j # k => q_recv[i][j] # q_recv[i][k]

\* ------------------------------------------------------------------ after-image matching
\* The IO loop feeding the matcher from the log, the commit path's watch()
\* and the threads calling match().
NextAM ==
  \/ LogReserve(MaxLogAM)
  \/ LogWrite
  \/ AppendAfterImage(MaxLogAM)
  \/ IOEntryCheckStop
  \/ IOEntryCheckTail
  \/ IOEntryInner
  \/ IOEntryRead
  \/ IOEntryPush
  \/ IOEntryInsert
  \/ Watch
  \/ Match
  \/ MatchWake

SpecAM == Init /\ [][NextAM]_vars

\* the log positions of the after-images that reference intention ipos
AfterImagesOf(ipos) == {p \in 0..(Len(log) - 1) : log[p + 1] = AfterImageEntry(ipos)}

\* the positions push() was called with for intention ipos, in call order
PushedFor(ipos) == {k \in DOMAIN pushes : pushes[k][1] = ipos}

\* C4: rendezvous completeness: once watch() for intention I and the first
\* push() of an after-image for I, at position p, have both been executed, in
\* either order, the pair of I with after-image position p has been placed
\* on matched_ (I = 0 included).
C4_RendezvousComplete ==
  \A ipos \in watched :
    PushedFor(ipos) # {} =>
      \E k \in DOMAIN enqueued :
        enqueued[k] = Pair(ipos, pushes[SetMin(PushedFor(ipos))][2])

\* C5: first after-image wins: a pair on matched_ for intention I carries
\* the smallest log position among the after-images that reference I,
\* whatever the order of watch and the pushes.
C5_FirstAfterImageWins ==
  \A k \in DOMAIN enqueued :
    /\ AfterImagesOf(enqueued[k].ipos) # {}
    /\ enqueued[k].ai = SetMin(AfterImagesOf(enqueued[k].ipos))

\* C5 witness: an intention with two after-images in the log, both pushed,
\* has been matched
C5_Witness ==
  \E k \in DOMAIN enqueued :
    /\ Cardinality(AfterImagesOf(enqueued[k].ipos)) >= 2
    /\ Cardinality(PushedFor(enqueued[k].ipos)) >= 2

\* C6: matcher uniqueness: at most one pair per intention position is ever
\* placed on matched_, and at most one is returned by match().
C6_MatcherUniqueness ==
  /\ \A j, k \in DOMAIN enqueued : enqueued[j].ipos = enqueued[k].ipos => j = k
  /\ \A j, k \in DOMAIN returned : returned[j].ipos = returned[k].ipos => j = k

\* C6 witness: match() has returned the pair of an intention that was
\* watched and has had two after-images pushed
C6_Witness ==
  \E k \in DOMAIN returned :
    /\ returned[k].ipos \in watched
    /\ Cardinality(PushedFor(returned[k].ipos)) >= 2

\* C7: watermark monotonicity: no step lowers matched_watermark_, and a
\* push() for an intention at or below the watermark changes neither the
\* slot index nor the matched deque.
C7_WatermarkMonotone ==
  [][/\ matched_watermark_' >= matched_watermark_
     /\ (pushes' # pushes /\ Last(pushes')[1] <= matched_watermark_)
          => UNCHANGED <<afterimages_, matched_, enqueued>>]_vars

\* C7 witness: an after-image was pushed for an intention above 0 that the
\* watermark had passed, and was dropped
C7_Witness ==
  \E k \in DOMAIN pushes :
    /\ pushes[k][1] > 0
    /\ pushes[k][1] <= matched_watermark_
    /\ \E j \in 1..(k - 1) : pushes[j][1] = pushes[k][1]
    /\ \E e \in DOMAIN enqueued : enqueued[e] = Pair(pushes[k][1], pushes[SetMin(PushedFor(pushes[k][1]))][2])

\* ------------------------------------------------------------------ shutdown
\* Stop() against both loops, queue registration, the queues' consumers in
\* Wait() and the threads in match(). Intentions reach the log through
\* LogWrite alone here, so the intention loop never finds one in cache_.
NextStop ==
  \/ LogReserve(MaxLogStop)
  \/ LogWrite
  \/ NewIntentionQueue(MaxLogStop, MaxQueuesStop)
  \/ IntentionReaderTop
  \/ IntentionReaderFind
  \/ IntentionReaderRead
  \/ IntentionReaderPushRead
  \/ IOEntryCheckStop
  \/ IOEntryCheckTail
  \/ IOEntryInner
  \/ IOEntryRead
  \/ IOEntryPush
  \/ IOEntryInsert
  \/ Wait
  \/ WaitWake
  \/ Match
  \/ MatchWake
  \/ StopSetFlag
  \/ StopShutdown
  \/ StopQueuesTest
  \/ StopQueueFlag
  \/ StopQueueNotify
  \/ StopJoinReader
  \/ StopJoinIO

\* the steps of the three service threads
IntentionReaderThread ==
  \/ IntentionReaderTop
  \/ IntentionReaderFind
  \/ IntentionReaderPushCached
  \/ IntentionReaderRead
  \/ IntentionReaderPushRead

IOEntryThread ==
  \/ IOEntryCheckStop
  \/ IOEntryCheckTail
  \/ IOEntryInner
  \/ IOEntryRead
  \/ IOEntryPush
  \/ IOEntryInsert

StopThread ==
  \/ StopSetFlag
  \/ StopShutdown
  \/ StopQueuesTest
  \/ StopQueueFlag
  \/ StopQueueNotify
  \/ StopJoinReader
  \/ StopJoinIO

\* A thread that can run does run: the two loops, Stop() once it is called,
\* and every notified thread. Nothing obliges a client to call in, or a
\* writer of the log to complete its append.
FairnessStop ==
  /\ WF_vars(IntentionReaderThread)
  /\ WF_vars(IOEntryThread)
  /\ WF_vars(stop_pc # "idle" /\ StopThread)
  /\ WF_vars(WaitWake)
  /\ WF_vars(MatchWake)

SpecStop == Init /\ [][NextStop]_vars /\ FairnessStop

\* C8: shutdown liveness of the loops: once Stop() has set stop_, both loops
\* terminate and Stop()'s joins return, whatever the log holds (a position
\* below the tail that still reads NotWritten included) and whatever queues
\* are registered.
C8_LoopsTerminate == stop_ ~> (stop_pc = "done" \/ aborted)

\* C9: after Stop() has returned no consumer is left blocked in Wait() on a
\* queue registered before Stop() returned (a queue registered while Stop()
\* ran included): each was woken to return the empty sentinel.
C9_WaitersReleased ==
  stop_pc = "done" =>
    \A i \in DOMAIN intention_queues_ : q_reg[i] # "done" => w_pc[i] # "waiting"

\* C10: once the matcher's shutdown() has been called no thread is left
\* blocked in match(): every one of them was woken to return the empty pair.
C10_MatchersReleased ==
  shutdown_ => \A t \in DOMAIN m_pc : m_pc[t] # "waiting"

\* ------------------------------------------------------------------ delivery order
\* The matcher fed by the IO loop and the commit path on a log without holes,
\* long enough for two intentions above position 0 and their after-images.
NextMatch ==
  \/ AppendIntention(MaxLogMatch)
  \/ AppendAfterImage(MaxLogMatch)
  \/ IOEntryCheckStop
  \/ IOEntryCheckTail
  \/ IOEntryInner
  \/ IOEntryRead
  \/ IOEntryPush
  \/ IOEntryInsert
  \/ Watch
  \/ Match
  \/ MatchWake

SpecMatch == InitWith(NumCallers) /\ [][NextMatch]_vars

\* C13: matcher delivery order: the pairs match() has returned are, in
\* order, the first of the pairs in the order their second side arrived
\* (the order they were placed on matched_), and the ones not yet returned
\* wait on matched_ in that order.
C13_DeliveryOrder == enqueued = returned \o matched_

\* C13 witness: match() has returned two pairs, the pair of the larger
\* intention position first
C13_Witness ==
  \E j, k \in DOMAIN returned : j < k /\ returned[j].ipos > returned[k].ipos

\* ------------------------------------------------------------------ entry cache
\* The IO loop and the callers of ReadIntentions filling entry_cache_ from a
\* log that may hold positions assigned and not yet written.
NextCache ==
  \/ LogReserve(MaxLogCache)
  \/ LogWrite
  \/ IOEntryCheckStop
  \/ IOEntryCheckTail
  \/ IOEntryInner
  \/ IOEntryRead
  \/ IOEntryPush
  \/ IOEntryInsert
  \/ ReadIntentions
  \/ ReadIntentionsRead
  \/ ReadIntentionsEmplace

SpecCache == Init /\ [][NextCache]_vars

\* C11: cache idempotence: no step changes or removes the entry
\* entry_cache_ holds for a position (the first insert wins), and every
\* reference ReadIntentions has handed out for a position is the one the
\* cache holds for it.
C11_CacheIdempotent ==
  [][/\ \A p \in DOMAIN entry_cache_ :
          p \in DOMAIN entry_cache_' /\ entry_cache_'[p] = entry_cache_[p]
     /\ \A h \in handed' :
          h.pos \in DOMAIN entry_cache_' /\ entry_cache_'[h.pos].by = h.by]_vars

\* C11 witness: a caller of ReadIntentions missed on a position, lost the
\* insert to another thread and was handed that thread's reference
C11_Witness == \E h \in handed : h.lost

\* the log positions push() has been called with
PushedPos == {pushes[k][2] : k \in DOMAIN pushes}

\* C15: the IO loop pushes the after-images in strictly ascending position
\* order (so each at most once), each with the intention it references, and
\* has pushed every after-image below its cursor next, whatever
\* ReadIntentions put in entry_cache_ and however often a read was retried.
C15_PushEveryAfterImage ==
  /\ \A k \in DOMAIN pushes :
       /\ k > 1 => pushes[k - 1][2] < pushes[k][2]
       /\ Read(pushes[k][2]) = AfterImageEntry(pushes[k][1])
  /\ \A p \in 0..(next - 1) : Read(p).type = "AI" => p \in PushedPos
  /\ PushedPos \subseteq 0..next

\* C15 witness: the IO loop has pushed an after-image after it skipped a
\* smaller position that a ReadIntentions caller had put in entry_cache_
C15_Witness ==
  \E p \in PushedPos :
    \E q \in DOMAIN entry_cache_ : q < p /\ entry_cache_[q].by # IOThread

\* ------------------------------------------------------------------ transactions
\* A client running transactions one after the other against the log.
NextTx ==
  \/ Begin
  \/ Get
  \/ Put
  \/ Delete
  \/ Commit

SpecTx == Init /\ [][NextTx]_vars

\* the transaction has recorded a Put or a Delete
Mutated == \E key \in TxKeys : Op("Put", key) \in intention_ \/ Op("Delete", key) \in intention_

\* C12: read-only commit: Get, Put and Delete append nothing to the log (it
\* is as long as when the transaction began until Commit is called), and a
\* committed transaction that recorded no Put or Delete has returned true
\* from Commit and has appended nothing.
C12_ReadOnlyCommit ==
  /\ ~committed_ => Len(log) = tx_log0 /\ tx_ret = "none"
  /\ (committed_ /\ ~Mutated) => tx_ret = "true" /\ Len(log) = tx_log0

\* C12 witness: a transaction that did Gets only has committed, after an
\* earlier transaction's commit had appended its intention
C12_Witness ==
  /\ committed_
  /\ intention_ # {}
  /\ ~Mutated
  /\ tx_log0 > 0

\* ------------------------------------------------------------------ lock order
\* Every thread of the service and every caller, each at some instruction of
\* its code, with the mutexes they hold.
NextLocks ==
  \/ LockAcquire
  \/ LockRelease
  \/ LogCall
  \/ Branch
  \/ Join

SpecLocks == Init /\ [][NextLocks]_vars

\* the threads that have not returned
Live == {t \in Threads : lk_pc[t] # 0}

\* thread t waits for a mutex that thread u holds
WaitsFor(t, u) == lk_pc[t] # 0 /\ Cur(t).op = "lock" /\ lk_owner[Cur(t).mu] = u

\* the thread that holds the mutex thread t waits for ("free": t is not waiting)
Blocker(t) ==
  IF lk_pc[t] # 0 /\ Cur(t).op = "lock" THEN lk_owner[Cur(t).mu] ELSE "free"

\* following at most n waits from thread u leads to thread t
RECURSIVE WaitChain(_, _, _)
WaitChain(t, u, n) ==
  /\ n > 0
  /\ Blocker(u) # "free"
  /\ Blocker(u) = t \/ WaitChain(t, Blocker(u), n - 1)

\* C18: lock order: a thread about to take a queue mutex holds at most the
\* service mutex; a thread about to take the service mutex holds no queue or
\* matcher mutex; a thread that holds or is about to take the matcher mutex
\* holds no service or queue mutex; and no chain of threads, each waiting
\* for a mutex the next one holds, leads back to its first thread (no
\* lock-cycle deadlock).
C18_LockOrder ==
  /\ \A t \in Live :
       /\ (Cur(t).op = "lock" /\ Cur(t).mu = "q") => Held(t) \subseteq {"svc"}
       /\ (Cur(t).op = "lock" /\ Cur(t).mu = "svc") => Held(t) \cap {"q", "m"} = {}
       /\ (Cur(t).op = "lock" /\ Cur(t).mu = "m") => Held(t) \cap {"svc", "q"} = {}
       /\ "m" \in Held(t) => Held(t) \cap {"svc", "q"} = {}
  /\ \A t \in Live : ~WaitChain(t, t, Cardinality(Threads))

\* C18 witness: the intention loop holds the service mutex and a queue
\* mutex while one thread waits for the service mutex, another for the queue
\* mutex, and the matcher mutex is held too
C18_Witness ==
  /\ Held("ir") = {"svc", "q"}
  /\ WaitsFor("io", "ir")
  /\ WaitsFor("wait", "ir")
  /\ lk_owner["m"] # "free"

\* C19: no thread holds the service mutex, a queue mutex or the matcher
\* mutex while it is in a call of the shared log (Read, Append, CheckTail).
C19_NoLockAcrossLog ==
  \A t \in Live : Cur(t).op = "log" => Held(t) \cap {"svc", "q", "m"} = {}

\* C19 witness: the IO loop, the intention loop, ReadIntentions and
\* AppendIntention are all in a call of the log while other threads hold the
\* service mutex and the matcher mutex
C19_Witness ==
  /\ \A t \in {"ir", "io", "ri", "ai"} : lk_pc[t] # 0 /\ Cur(t).op = "log"
  /\ lk_owner["svc"] # "free"
  /\ lk_owner["m"] # "free"

\* ------------------------------------------------------------------ matcher state
\* C14: watermark meaning: every intention position at or below
\* matched_watermark_ has had its pair placed on matched_ and its slot erased.
C14_WatermarkMeaning ==
  \A ipos \in 0..matched_watermark_ :
    IsIntention(ipos) =>
      /\ \E k \in DOMAIN enqueued : enqueued[k].ipos = ipos
      /\ ipos \notin DOMAIN afterimages_

\* C16: slot shape: no slot of the index holds an observed after-image
\* position and a pending tree at the same time.
C16_SlotShape ==
  \A ipos \in DOMAIN afterimages_ :
    ~(afterimages_[ipos].pos # None /\ afterimages_[ipos].tree)

\* C16 witness: the index holds a slot created by watch (tree only) and a
\* slot created by push (position only), and a rendezvous has completed
C16_Witness ==
  /\ \E ipos \in DOMAIN afterimages_ : afterimages_[ipos] = Slot(None, TRUE)
  /\ \E ipos \in DOMAIN afterimages_ :
       afterimages_[ipos].pos # None /\ ~afterimages_[ipos].tree
  /\ enqueued # <<>>

\* C17: once both sides of intention I have met (its pair was placed on
\* matched_ and the watch or push returned), I has no slot in the index;
\* stated for the runs in which no assert has failed (no key of the index is
\* at or below the watermark).
C17_SlotRemoved ==
  (~aborted /\ \A ipos \in DOMAIN afterimages_ : matched_watermark_ < ipos) =>
    \A k \in DOMAIN enqueued : enqueued[k].ipos \notin DOMAIN afterimages_

\* C20: the assertion of gc() is valid: every key of the slot index is
\* strictly greater than matched_watermark_.
C20_GcAssertValid ==
  \A ipos \in DOMAIN afterimages_ : matched_watermark_ < ipos

====
